---- MODULE Spec2Model ----
(***************************************************************************)
(* Model of the crawl engine of js-web-crawler (src/webCrawler.js):        *)
(* WebCrawler.crawl (scheduler / frontier), WebCrawler.crawlPage (fetch    *)
(* and retry), WebCrawler.isAllowedByRobots (robots cache) and             *)
(* WebCrawler.extractAndFilterUrls (link filter).                          *)
(*                                                                         *)
(* JavaScript runs one synchronous segment at a time; a segment ends at an *)
(* await whose promise is settled by I/O or a timer.  Each action below is *)
(* one such segment.  The HTTP transport, the HTML parser and the robots   *)
(* parser are the environment: a response is a nondeterministic choice.    *)
(***************************************************************************)
EXTENDS Integers, Sequences, FiniteSets, TLC

(* ------------------------------ bounds --------------------------------- *)
MaxPagesBound == 4
MaxConcurrencyBound == 2
MaxDepthBound == 2
MaxRetriesBound == 1
MaxLinks == 4

(* ------------------------------- URLs ---------------------------------- *)
(* A URL as url-parse sees it: protocol, hostname and the path segments.   *)
MkUrl(p, h, path) == [protocol |-> p, hostname |-> h, pathname |-> path]

Null == MkUrl("null", "", <<>>)
A0 == MkUrl("https:", "a.com", <<>>)
A1 == MkUrl("https:", "a.com", <<"admin", "x">>)
A2 == MkUrl("https:", "a.com", <<"p">>)
A3 == MkUrl("https:", "a.com", <<"p", "q">>)
B0 == MkUrl("https:", "b.com", <<>>)
B1 == MkUrl("https:", "b.com", <<"p">>)
M0 == MkUrl("mailto:", "", <<"me">>)

URLS == {A0, A1, A2, A3, B0, B1, M0}

SeedUrl == A0

(* The site: the absolute links extractLinks finds on each page.           *)
SiteLinks(u) ==
  CASE u = A0 -> <<A1, A2, B0, B1, A1>>
    [] u = A1 -> <<A3, A0>>
    [] u = A2 -> <<A3, M0, B1>>
    [] u = A3 -> <<A0>>
    [] u = B0 -> <<B1, A2>>
    [] OTHER  -> <<>>

(* responseUrl values the transport may report for a request of u.         *)
FinalUrls(u) == IF u = A2 THEN {A2, B0} ELSE {u}

(* The content-type header each page of the site is served with.           *)
SiteContentType(u) == IF u = B1 THEN "application/pdf" ELSE "text/html"

(* The robots.txt files of the site, as the path prefixes they disallow;   *)
(* a host without an entry serves none (the request fails with 404).       *)
SiteRobots(host) ==
  CASE host = "a.com" -> { {<<"admin">>} }
    [] host = "b.com" -> { {<<"p">>} }
    [] OTHER -> {}

(* Elapsed wall-clock times (ms) Date.now() may measure for a run.         *)
ElapsedChoices == {0, 2000}

(* Inter-batch delays (ms) a run may be configured with.                   *)
DelayChoices == {1000}

(* Listener configurations: none attached, or all three as app.js does.    *)
ListenerChoices == { {}, {"page", "error", "complete"} }

(* ------------------------------- state --------------------------------- *)
VARIABLES
  given,          \* the options object passed to the constructor
  listeners,      \* event names that have a listener attached
  visitedUrls,    \* this.visitedUrls
  failedUrls,     \* this.failedUrls
  results,        \* this.results
  robotsCache,    \* this.robotsCache
  queue,          \* crawl(): queue
  batch,          \* crawl(): batch
  tasks,          \* crawl(): promises, one crawlPage task per batch item
  idx,            \* crawl(): i of the result loop (1-based)
  pc,             \* crawl(): position of the scheduler
  returned,       \* crawl(): the value it resolved with, if any
  emitted,        \* every emit() call made, in order
  requests,       \* page GET requests issued, per URL
  robotsRequests, \* robots.txt GET requests issued, per robots key
  entered,        \* crawlPage calls that passed the visited guard, per URL
  dispatched,     \* every item removed from the queue, in order
  skipped,        \* every crawlPage call that returned null, with its cause
  filterRun       \* a direct call of extractAndFilterUrls and its result

vars == <<given, listeners, visitedUrls, failedUrls, results, robotsCache,
          queue, batch, tasks, idx, pc, returned, emitted, requests,
          robotsRequests, entered, dispatched, skipped, filterRun>>

(* ----------------------------- constructor ----------------------------- *)
(* The constructor taking maxConcurrency from the maxPages option.         *)
ConstructorSwapped(o) ==
  [ maxDepth            |-> o.maxDepth,
    maxPages            |-> o.maxPages,
    maxConcurrency      |-> o.maxPages,
    delay               |-> o.delay,
    followExternalLinks |-> o.followExternalLinks,
    respectRobotsTxt    |-> o.respectRobotsTxt,
    allowedDomains      |-> o.allowedDomains,
    excludePatterns     |-> o.excludePatterns,
    includePatterns     |-> o.includePatterns,
    maxRetries          |-> o.maxRetries ]

(* this.options: every default is overridden by the spread of the options  *)
(* given, so an option that is given keeps its value (0 and false too).    *)
Constructor(o) ==
  [ maxDepth            |-> o.maxDepth,
    maxPages            |-> o.maxPages,
    maxConcurrency      |-> o.maxConcurrency,
    delay               |-> o.delay,
    followExternalLinks |-> o.followExternalLinks,
    respectRobotsTxt    |-> o.respectRobotsTxt,
    allowedDomains      |-> o.allowedDomains,
    excludePatterns     |-> o.excludePatterns,
    includePatterns     |-> o.includePatterns,
    maxRetries          |-> o.maxRetries ]

options == Constructor(given)

(* pLimit(this.options.maxConcurrency): the number of slots.               *)
Limit == options.maxConcurrency

(* ------------------------------ helpers -------------------------------- *)
Min(a, b) == IF a < b THEN a ELSE b

SeqToSet(s) == { s[i] : i \in 1..Len(s) }

(* [...new Set(list)]: first occurrences, in order.                        *)
Dedup(s) ==
  LET first == { i \in 1..Len(s) : \A j \in 1..(i - 1) : s[j] # s[i] }
  IN  [ n \in 1..Cardinality(first) |->
          s[CHOOSE i \in first : Cardinality({ j \in first : j < i }) = n - 1] ]

(* The absolute URL string the patterns are tested against (link.url), as  *)
(* its tokens: scheme, host, then the path segments.                       *)
UrlString(url) == <<url.protocol, url.hostname>> \o url.pathname

(* new RegExp(pattern).test(url) for a literal pattern: the pattern's      *)
(* tokens occur consecutively somewhere in the URL string.                 *)
PatternTest(pattern, url) ==
  \E k \in 0..(Len(UrlString(url)) - Len(pattern)) :
     \A j \in 1..Len(pattern) : UrlString(url)[k + j] = pattern[j]

(* ------------------------ extractAndFilterUrls ------------------------- *)
SchemeRule(url) == url.protocol \in {"http:", "https:"}

(* The filter without the hostname comparison.                             *)
DomainRuleAbsent(url, baseUrl) == TRUE

DomainRule(url, baseUrl) ==
  options.followExternalLinks \/ url.hostname = baseUrl.hostname

AllowedDomainsRule(url) ==
  Len(options.allowedDomains) > 0
    => url.hostname \in SeqToSet(options.allowedDomains)

(* The filter without the exclude patterns.                                *)
ExcludeRuleAbsent(url) == TRUE

ExcludeRule(url) ==
  ~ \E i \in 1..Len(options.excludePatterns) :
        PatternTest(options.excludePatterns[i], url)

IncludeRule(url) ==
  Len(options.includePatterns) > 0
    => \E i \in 1..Len(options.includePatterns) :
          PatternTest(options.includePatterns[i], url)

KeepUrl(url, baseUrl) ==
  /\ SchemeRule(url)
  /\ DomainRule(url, baseUrl)
  /\ AllowedDomainsRule(url)
  /\ ExcludeRule(url)
  /\ IncludeRule(url)

extractAndFilterUrls(links, baseUrl) ==
  Dedup(SelectSeq(links, LAMBDA url : KeepUrl(url, baseUrl)))

(* ------------------------- isAllowedByRobots --------------------------- *)
(* robotsUrl = `${protocol}//${host}/robots.txt`, the key of the cache.    *)
RobotsKey(u) == <<u.protocol, u.hostname>>

RobotsKeys == { RobotsKey(u) : u \in URLS }

NotCached == [cached |-> FALSE, allowAll |-> FALSE, rules |-> {}]

(* What a robots.txt request may come back with: a failure (no file, a    *)
(* network error, a parse error), or the rules of the host's file.         *)
RobotsResponses(k) ==
  { [ok |-> FALSE, rules |-> {}] }
    \cup { [ok |-> TRUE, rules |-> r] : r \in SiteRobots(k[2]) }

(* The value stored by robotsCache.set: the parsed rules, or null.         *)
CacheEntry(resp) ==
  IF resp.ok THEN [cached |-> TRUE, allowAll |-> FALSE, rules |-> resp.rules]
  ELSE [cached |-> TRUE, allowAll |-> TRUE, rules |-> {}]

IsPrefix(p, s) == Len(p) <= Len(s) /\ \A j \in 1..Len(p) : s[j] = p[j]

(* robots ? robots.isAllowed(url, userAgent) : true                        *)
RobotsAllows(entry, u) ==
  entry.allowAll \/ ~ \E p \in entry.rules : IsPrefix(p, u.pathname)

(* ----------------------------- crawlPage ------------------------------- *)
Queued == [pc |-> "queued", retries |-> 0, value |-> <<>>]

ActivePcs == {"robots", "fetch", "backoff"}

SettledPcs == {"fulfilled", "rejected"}

(* Tasks whose crawlPage call has started and has not settled.             *)
InFlight == { i \in 1..Len(tasks) : tasks[i].pc \in ActivePcs }

(* p-limit starts queued functions in order while a slot is free.          *)
CanStart(i) ==
  /\ i \in 1..Len(tasks)
  /\ tasks[i].pc = "queued"
  /\ \A j \in 1..(i - 1) : tasks[j].pc # "queued"
  /\ Cardinality(InFlight) < Limit

(* Starts run as microtasks, ahead of any I/O or timer callback.           *)
NoPendingStart == ~ \E i \in 1..Len(tasks) : CanStart(i)

(* crawlPage without the visitedUrls.add.                                  *)
MarkVisitedNever(v, u) == v

(* this.visitedUrls.add(url)                                               *)
MarkVisited(v, u) == v \cup {u}

(* while (retries <= maxRetries) ... catch: retries++; rethrow when        *)
(* retries > maxRetries, else back off and try again.                      *)
RetriesExhausted(retries) == retries > options.maxRetries

(* contentType.includes('text/html')                                       *)
IsHtml(contentType) == contentType = "text/html"

PageResult(u, final, depth, parent) ==
  [url |-> final, originalUrl |-> u, links |-> SiteLinks(u),
   depth |-> depth, parent |-> parent]

(* A crawlPage call that returned null: the URL, the cause, and the page   *)
(* requests issued for the URL up to then.                                 *)
Skip(u, kind) == [url |-> u, kind |-> kind, requests |-> requests[u]]

(* The synchronous start of crawlPage: visited guard, mark visited, then   *)
(* the robots lookup (a cache hit answers at once, a miss sends a request) *)
(* and the first page request.                                             *)
StartTask(i) ==
  /\ pc = "await"
  /\ CanStart(i)
  /\ LET u == batch[i].url
         k == RobotsKey(u)
     IN  IF u \in visitedUrls
         THEN /\ tasks' = [tasks EXCEPT ![i].pc = "fulfilled"]
              /\ skipped' = skipped \cup {Skip(u, "visited")}
              /\ UNCHANGED <<visitedUrls, entered, requests, robotsRequests>>
         ELSE /\ visitedUrls' = MarkVisited(visitedUrls, u)
              /\ entered' = [entered EXCEPT ![u] = @ + 1]
              /\ IF options.respectRobotsTxt /\ ~ robotsCache[k].cached
                 THEN /\ tasks' = [tasks EXCEPT ![i].pc = "robots"]
                      /\ robotsRequests' = [robotsRequests EXCEPT ![k] = @ + 1]
                      /\ UNCHANGED <<requests, skipped>>
                 ELSE IF options.respectRobotsTxt /\ ~ RobotsAllows(robotsCache[k], u)
                 THEN /\ tasks' = [tasks EXCEPT ![i].pc = "fulfilled"]
                      /\ skipped' = skipped \cup {Skip(u, "robots")}
                      /\ UNCHANGED <<requests, robotsRequests>>
                 ELSE /\ tasks' = [tasks EXCEPT ![i].pc = "fetch"]
                      /\ requests' = [requests EXCEPT ![u] = @ + 1]
                      /\ UNCHANGED <<robotsRequests, skipped>>
  /\ UNCHANGED <<filterRun, given, listeners, failedUrls, results, robotsCache, queue,
                 batch, idx, pc, returned, emitted, dispatched>>

(* The robots.txt request of task i comes back: cache the rules or null,   *)
(* then answer the lookup and either skip the page or request it.          *)
RobotsResponse(i) ==
  /\ pc = "await"
  /\ i \in 1..Len(tasks)
  /\ tasks[i].pc = "robots"
  /\ NoPendingStart
  /\ \E resp \in RobotsResponses(RobotsKey(batch[i].url)) :
       LET u == batch[i].url
           k == RobotsKey(u)
           entry == CacheEntry(resp)
       IN  /\ robotsCache' = [robotsCache EXCEPT ![k] = entry]
           /\ IF RobotsAllows(entry, u)
              THEN /\ tasks' = [tasks EXCEPT ![i].pc = "fetch"]
                   /\ requests' = [requests EXCEPT ![u] = @ + 1]
                   /\ UNCHANGED skipped
              ELSE /\ tasks' = [tasks EXCEPT ![i].pc = "fulfilled"]
                   /\ skipped' = skipped \cup {Skip(u, "robots")}
                   /\ UNCHANGED requests
  /\ UNCHANGED <<filterRun, given, listeners, visitedUrls, failedUrls, results, queue,
                 batch, idx, pc, returned, emitted, robotsRequests, entered,
                 dispatched>>

(* The page request of task i comes back: an HTML page, another content    *)
(* type, or an error (HTTP error status, network error, timeout).          *)
PageResponse(i) ==
  /\ pc = "await"
  /\ i \in 1..Len(tasks)
  /\ tasks[i].pc = "fetch"
  /\ NoPendingStart
  /\ LET u == batch[i].url
     IN  \/ /\ IsHtml(SiteContentType(u))
            /\ \E final \in FinalUrls(u) :
                 tasks' = [tasks EXCEPT ![i].pc = "fulfilled",
                             ![i].value = <<PageResult(u, final, batch[i].depth,
                                                       batch[i].parent)>>]
            /\ UNCHANGED skipped
         \/ /\ ~ IsHtml(SiteContentType(u))
            /\ tasks' = [tasks EXCEPT ![i].pc = "fulfilled"]
            /\ skipped' = skipped \cup {Skip(u, "nonhtml")}
         \/ /\ tasks' = [tasks EXCEPT
                           ![i].retries = @ + 1,
                           ![i].pc = IF RetriesExhausted(tasks[i].retries + 1)
                                     THEN "rejected" ELSE "backoff"]
            /\ UNCHANGED skipped
  /\ UNCHANGED <<filterRun, given, listeners, visitedUrls, failedUrls, results,
                 robotsCache, queue, batch, idx, pc, returned, emitted,
                 requests, robotsRequests, entered, dispatched>>

(* The backoff sleep of task i ends: the page is requested again.          *)
BackoffDone(i) ==
  /\ pc = "await"
  /\ i \in 1..Len(tasks)
  /\ tasks[i].pc = "backoff"
  /\ NoPendingStart
  /\ tasks' = [tasks EXCEPT ![i].pc = "fetch"]
  /\ requests' = [requests EXCEPT ![batch[i].url] = @ + 1]
  /\ UNCHANGED <<skipped, filterRun, given, listeners, visitedUrls, failedUrls, results,
                 robotsCache, queue, batch, idx, pc, returned, emitted,
                 robotsRequests, entered, dispatched>>

(* ------------------------------- crawl --------------------------------- *)
Item(u, d, parent) == [url |-> u, depth |-> d, parent |-> parent]

(* while (queue.length > 0 && this.results.length < this.options.maxPages) *)
LoopCondition == Len(queue) > 0 /\ Len(results) < options.maxPages

(* queue.splice(0, this.options.maxConcurrency): the items removed.        *)
BatchOf(q) == SubSeq(q, 1, Min(options.maxConcurrency, Len(q)))

(* queue.unshift(item) in place of queue.push(item).                       *)
EnqueueFront(q, item) == <<item>> \o q

(* queue.push(item)                                                        *)
Enqueue(q, item) == Append(q, item)

RECURSIVE PushAll(_, _)
PushAll(q, items) ==
  IF items = <<>> THEN q ELSE PushAll(Enqueue(q, Head(items)), Tail(items))

(* The depth test written with <= instead of <.                           *)
WithinDepthLimitInclusive(item) == item.depth <= options.maxDepth

(* if (item.depth < this.options.maxDepth)                                 *)
WithinDepthLimit(item) == item.depth < options.maxDepth

(* Every filtered URL pushed, seen or not.                                 *)
NotSeenAbsent(url) == TRUE

(* if (!this.visitedUrls.has(url) && !this.failedUrls.has(url))            *)
NotSeen(url) == url \notin visitedUrls /\ url \notin failedUrls

(* The children carrying the requested URL of the page as parent.          *)
NewItemsParentRequested(item, crawlResult) ==
  LET newUrls == extractAndFilterUrls(crawlResult.links, crawlResult.url)
      fresh == SelectSeq(newUrls, NotSeen)
  IN  [ j \in 1..Len(fresh) |->
          Item(fresh[j], item.depth + 1, item.url) ]

(* The items a successful result adds to the queue.                        *)
NewItems(item, crawlResult) ==
  LET newUrls == extractAndFilterUrls(crawlResult.links, crawlResult.url)
      fresh == SelectSeq(newUrls, NotSeen)
  IN  [ j \in 1..Len(fresh) |->
          Item(fresh[j], item.depth + 1, crawlResult.url) ]

(* The rejected branch throwing whatever listens.                          *)
EmitThrowsAnyway(kind) == kind = "error"

(* EventEmitter.emit: an 'error' event nobody listens to is thrown.        *)
EmitThrows(kind) == kind = "error" /\ "error" \notin listeners

Event(kind, u) == [kind |-> kind, url |-> u]

(* The summary computed without the results.length > 0 test.               *)
SummaryUnguarded(totalPages, failedPages, elapsed) ==
  [ totalPages  |-> totalPages,
    failedPages |-> failedPages,
    totalTime   |-> elapsed,
    averageTime |-> <<elapsed, totalPages>> ]

(* averageTime as the exact quotient numerator / denominator.              *)
Summary(totalPages, failedPages, elapsed) ==
  [ totalPages  |-> totalPages,
    failedPages |-> failedPages,
    totalTime   |-> elapsed,
    averageTime |-> IF totalPages > 0 THEN <<elapsed, totalPages>> ELSE <<0, 1>> ]

(* The else branch taking every outcome that is not a result.             *)
IsRejectedOrNull(t) == ~ (t.pc = "fulfilled" /\ t.value # <<>>)

(* result.status === 'rejected'                                            *)
IsRejected(t) == t.pc = "rejected"

(* One pass of the while loop up to the await: splice a batch off the      *)
(* queue and hand every item to the limiter.                               *)
TakeBatch ==
  /\ pc = "loop"
  /\ LoopCondition
  /\ batch' = BatchOf(queue)
  /\ queue' = SubSeq(queue, Len(batch') + 1, Len(queue))
  /\ tasks' = [ i \in 1..Len(batch') |-> Queued ]
  /\ dispatched' = dispatched \o batch'
  /\ idx' = 1
  /\ pc' = "await"
  /\ UNCHANGED <<skipped, filterRun, given, listeners, visitedUrls, failedUrls, results,
                 robotsCache, returned, emitted, requests, robotsRequests,
                 entered>>

(* Promise.allSettled resolves once every task of the batch has settled.   *)
BatchSettled ==
  /\ pc = "await"
  /\ \A i \in 1..Len(tasks) : tasks[i].pc \in SettledPcs
  /\ pc' = "process"
  /\ UNCHANGED <<skipped, filterRun, given, listeners, visitedUrls, failedUrls, results,
                 robotsCache, queue, batch, tasks, idx, returned, emitted,
                 requests, robotsRequests, entered, dispatched>>

(* After the body of the for loop for item idx: the next item, or the end  *)
(* of the pass (sleep when the queue is not empty and delay > 0).          *)
NextPc(q) ==
  IF idx < Len(batch) THEN "process"
  ELSE IF Len(q) > 0 /\ options.delay > 0 THEN "sleep" ELSE "loop"

(* The body of the for loop for batchResults[idx].  An emit that throws    *)
(* lands in the catch block, whose own emit('error', error) throws again   *)
(* when nobody listens, and crawl() rejects.                               *)
ProcessItem ==
  /\ pc = "process"
  /\ idx \in 1..Len(batch)
  /\ LET item == batch[idx]
         t == tasks[idx]
     IN  IF t.pc = "fulfilled" /\ t.value # <<>>
         THEN LET crawlResult == t.value[1]
              IN  /\ results' = Append(results, crawlResult)
                  /\ queue' = IF WithinDepthLimit(item)
                              THEN PushAll(queue, NewItems(item, crawlResult))
                              ELSE queue
                  /\ emitted' = Append(emitted, Event("page", crawlResult.url))
                  /\ pc' = NextPc(queue')
                  /\ UNCHANGED failedUrls
         ELSE IF IsRejected(t)
         THEN /\ failedUrls' = failedUrls \cup {item.url}
              /\ IF EmitThrows("error")
                 THEN /\ emitted' = emitted \o <<Event("error", item.url),
                                                 Event("error", Null)>>
                      /\ pc' = "raised"
                 ELSE /\ emitted' = Append(emitted, Event("error", item.url))
                      /\ pc' = NextPc(queue)
              /\ UNCHANGED <<results, queue>>
         ELSE /\ pc' = NextPc(queue)
              /\ UNCHANGED <<results, queue, failedUrls, emitted>>
  /\ idx' = IF pc' = "process" THEN idx + 1 ELSE idx
  /\ UNCHANGED <<skipped, filterRun, given, listeners, visitedUrls, robotsCache, batch, tasks,
                 returned, requests, robotsRequests, entered, dispatched>>

(* await this.sleep(this.options.delay) ends.                              *)
Sleep ==
  /\ pc = "sleep"
  /\ pc' = "loop"
  /\ UNCHANGED <<skipped, filterRun, given, listeners, visitedUrls, failedUrls, results,
                 robotsCache, queue, batch, tasks, idx, returned, emitted,
                 requests, robotsRequests, entered, dispatched>>

(* The loop condition is false: compute the summary, emit 'complete' and   *)
(* return.                                                                 *)
Finish ==
  /\ pc = "loop"
  /\ ~ LoopCondition
  /\ \E elapsed \in ElapsedChoices :
       returned' = << [ results |-> results,
                        summary |-> Summary(Len(results),
                                            Cardinality(failedUrls), elapsed) ] >>
  /\ emitted' = Append(emitted, Event("complete", Null))
  /\ pc' = "returned"
  /\ UNCHANGED <<skipped, filterRun, given, listeners, visitedUrls, failedUrls, results,
                 robotsCache, queue, batch, tasks, idx, requests,
                 robotsRequests, entered, dispatched>>

(* ------------------------------ behaviour ------------------------------ *)
(* The options a crawler is constructed with: the small values of each     *)
(* numeric option and its bound.                                           *)
OptionChoices ==
  [ maxDepth            : {0, 1, MaxDepthBound},
    maxPages            : {1, 2, 3, MaxPagesBound},
    maxConcurrency      : 1..MaxConcurrencyBound,
    delay               : DelayChoices,
    followExternalLinks : BOOLEAN,
    respectRobotsTxt    : BOOLEAN,
    allowedDomains      : {<<>>},
    excludePatterns     : {<<>>},
    includePatterns     : {<<>>},
    maxRetries          : {0, MaxRetriesBound} ]

(* No direct call of extractAndFilterUrls is part of a crawl() run.        *)
NoFilterRun == [links |-> <<>>, baseUrl |-> Null, called |-> FALSE, value |-> <<>>]

(* A fresh crawler on which crawl(SeedUrl) has just been called.           *)
Init ==
  /\ given \in OptionChoices
  /\ listeners \in ListenerChoices
  /\ visitedUrls = {}
  /\ failedUrls = {}
  /\ results = <<>>
  /\ robotsCache = [ k \in RobotsKeys |-> NotCached ]
  /\ queue = << Item(SeedUrl, 0, Null) >>
  /\ batch = <<>>
  /\ tasks = <<>>
  /\ idx = 1
  /\ pc = "loop"
  /\ returned = <<>>
  /\ emitted = <<>>
  /\ requests = [ u \in URLS |-> 0 ]
  /\ robotsRequests = [ k \in RobotsKeys |-> 0 ]
  /\ entered = [ u \in URLS |-> 0 ]
  /\ dispatched = <<>>
  /\ skipped = {}
  /\ filterRun = NoFilterRun

Next ==
  \/ TakeBatch
  \/ \E i \in 1..MaxConcurrencyBound : StartTask(i)
  \/ \E i \in 1..MaxConcurrencyBound : RobotsResponse(i)
  \/ \E i \in 1..MaxConcurrencyBound : PageResponse(i)
  \/ \E i \in 1..MaxConcurrencyBound : BackoffDone(i)
  \/ BatchSettled
  \/ ProcessItem
  \/ Sleep
  \/ Finish

Spec == Init /\ [][Next]_vars

(* ============================ properties ============================== *)
ResultSet == SeqToSet(results)

Ended == pc \in {"returned", "raised"}

(* C1: results.length <= maxPages in every reachable state, and no batch   *)
(* is taken off the frontier once results.length >= maxPages.              *)
C1_PageBound ==
  /\ Len(results) <= options.maxPages
  /\ (pc = "await" => Len(results) < options.maxPages)

(* C2: for every host, robots.txt is requested at most once during a run.  *)
C2_RobotsFetchedOncePerHost ==
  \A k \in RobotsKeys : robotsRequests[k] <= 1

(* Every item ever placed in the frontier, in the order of removal, then   *)
(* the items still queued.                                                 *)
Frontier == dispatched \o queue

(* The for loop over the batch has run to its end (or crawl() has ended).  *)
BatchProcessed == pc \in {"loop", "sleep", "returned", "raised"}

ResultsFor(u) == { n \in 1..Len(results) : results[n].originalUrl = u }

(* C3: per URL the fetch-and-retry unit runs at most once in a run; the    *)
(* URL is in VisitedSet before any request for it is issued; a later       *)
(* crawlPage call for the same URL returns null without fetching and adds  *)
(* nothing to results or to FailedSet.                                     *)
C3_FetchUnitOncePerUrl ==
  /\ \A u \in URLS :
       /\ entered[u] <= 1
       /\ requests[u] > 0 => u \in visitedUrls
       /\ requests[u] <= entered[u] * (options.maxRetries + 1)
       /\ Cardinality(ResultsFor(u)) <= 1
       /\ ~ (u \in failedUrls /\ ResultsFor(u) # {})
  /\ \A i, j \in 1..Len(tasks) :
       (i < j /\ batch[i].url = batch[j].url /\ tasks[j].pc # "queued")
         => tasks[j] = [pc |-> "fulfilled", retries |-> 0, value |-> <<>>]

(* C3 witness: the same URL was dispatched twice in one batch, the first   *)
(* task fetched it into results and the second settled as null.            *)
C3_Witness ==
  /\ pc = "process"
  /\ \E i, j \in 1..Len(tasks) :
       /\ i < j
       /\ batch[i].url = batch[j].url
       /\ tasks[i].value # <<>>
       /\ tasks[j].pc = "fulfilled" /\ tasks[j].value = <<>>
       /\ requests[batch[i].url] = 1

(* C4: with an 'error' listener attached, a permanently failed page never  *)
(* makes crawl() raise: every item of its batch is processed to its own    *)
(* outcome, and crawl() ends by returning {results, summary}.              *)
C4_FailureDoesNotRaise ==
  "error" \in listeners =>
    /\ pc # "raised"
    /\ BatchProcessed =>
         \A i \in 1..Len(batch) :
           /\ tasks[i].pc = "rejected" => batch[i].url \in failedUrls
           /\ (tasks[i].pc = "fulfilled" /\ tasks[i].value # <<>>)
                => tasks[i].value[1] \in ResultSet
    /\ Ended =>
         /\ Len(returned) = 1
         /\ returned[1].results = results
         /\ returned[1].summary.failedPages = Cardinality(failedUrls)

(* C4 witness: a run with the listener returned after a page failed in a   *)
(* batch whose sibling succeeded, and a later batch was dispatched.        *)
C4_Witness ==
  /\ "error" \in listeners
  /\ pc = "returned"
  /\ \E m, n \in 1..Len(dispatched) :
       /\ m < n
       /\ dispatched[m].url \in failedUrls
       /\ dispatched[m].depth = 1
       /\ dispatched[n].depth = 2
       /\ \E r \in ResultSet : r.depth = 1 /\ r.url = dispatched[n].parent

(* C5: a run with no listener attached ends as a run with listeners does:  *)
(* it returns {results, summary} and does not raise.                       *)
C5_NoListenerRunReturns ==
  (listeners = {} /\ Ended) =>
    /\ pc = "returned"
    /\ Len(returned) = 1
    /\ returned[1].results = results
    /\ returned[1].summary.failedPages = Cardinality(failedUrls)

(* C6: a URL whose page fetch fails on every attempt is requested exactly  *)
(* maxRetries + 1 times, then crawlPage rejects and the URL is recorded in *)
(* FailedSet; it is never requested again.                                 *)
C6_RetryBoundThenFailed ==
  /\ \A u \in URLS : requests[u] <= options.maxRetries + 1
  /\ \A i \in 1..Len(tasks) :
       tasks[i].pc = "rejected" =>
         /\ requests[batch[i].url] = options.maxRetries + 1
         /\ BatchProcessed => batch[i].url \in failedUrls

(* C7: every PageResult in results and every item ever placed in the       *)
(* frontier has depth <= maxDepth.                                         *)
C7_DepthBound ==
  /\ \A n \in 1..Len(results) : results[n].depth <= options.maxDepth
  /\ \A n \in 1..Len(Frontier) : Frontier[n].depth <= options.maxDepth

(* C7 witness: a page at depth maxDepth >= 1 is in results, it has links   *)
(* the filter keeps that were never seen, and its batch is processed.      *)
C7_Witness ==
  /\ BatchProcessed
  /\ options.maxDepth >= 1
  /\ \E n \in 1..Len(results) :
       /\ results[n].depth = options.maxDepth
       /\ \E url \in SeqToSet(extractAndFilterUrls(results[n].links, results[n].url)) :
            url \notin visitedUrls /\ url \notin failedUrls

(* C8: at every moment the number of crawlPage tasks in flight is at most  *)
(* the maxConcurrency option, within a batch and across batches.           *)
C8_ConcurrencyBound == Cardinality(InFlight) <= given.maxConcurrency

(* C8 witness: maxConcurrency tasks are in flight while more items wait in *)
(* the queue.                                                              *)
C8_Witness ==
  /\ given.maxConcurrency >= 2
  /\ Cardinality(InFlight) = given.maxConcurrency
  /\ Len(queue) > 0
  /\ Len(dispatched) > Len(batch)

DepthSorted(q) == \A i, j \in 1..Len(q) : i < j => q[i].depth <= q[j].depth

(* C9: the frontier only loses items at its front and gains items at its   *)
(* back, its items are in non-decreasing depth order, and no item is       *)
(* removed before a shallower item that is queued then or enqueued later.  *)
C9_FifoBreadthFirst ==
  /\ [](DepthSorted(queue) /\ DepthSorted(Frontier))
  /\ [][ \/ \E k \in 0..Len(queue) : queue' = SubSeq(queue, k + 1, Len(queue))
         \/ /\ Len(queue') >= Len(queue)
            /\ SubSeq(queue', 1, Len(queue)) = queue ]_vars

(* C9 witness: items of two depths are queued, behind removed items.       *)
C9_Witness ==
  /\ Len(queue) >= 2
  /\ queue[1].depth < queue[Len(queue)].depth
  /\ Len(dispatched) >= 2

(* C10: with followExternalLinks = false every item appended to the        *)
(* frontier has the hostname of the base URL it was filtered against (its  *)
(* parent), so a link to another host is never enqueued or dispatched.     *)
C10_SameHostAsParent ==
  ~ options.followExternalLinks =>
    \A n \in 1..Len(Frontier) :
      Frontier[n].parent # Null
        => Frontier[n].url.hostname = Frontier[n].parent.hostname

(* C10 witness: a page on a.com linking to b.com was processed with        *)
(* followExternalLinks = false and its in-domain links were dispatched.    *)
C10_Witness ==
  /\ ~ options.followExternalLinks
  /\ \E r \in ResultSet :
       /\ \E l \in SeqToSet(r.links) :
            l.protocol = "https:" /\ l.hostname # r.url.hostname
       /\ \E n \in 1..Len(dispatched) : dispatched[n].parent = r.url

ErrorEventsFor(u) ==
  { n \in 1..Len(emitted) : emitted[n].kind = "error" /\ emitted[n].url = u }

(* C11: once a batch has been processed, every item of it whose crawlPage  *)
(* rejected has its URL in FailedSet and exactly one 'error' notification  *)
(* carrying that URL; no rejected outcome is dropped.                      *)
C11_FailuresRecordedAndSurfaced ==
  BatchProcessed =>
    \A i \in 1..Len(tasks) :
      tasks[i].pc = "rejected" =>
        /\ batch[i].url \in failedUrls
        /\ Cardinality(ErrorEventsFor(batch[i].url)) = 1

(* C12: a dispatched URL skipped by policy (robots.txt, a content type     *)
(* that is not HTML, already visited) adds no PageResult, no FailedSet     *)
(* entry and no 'error' notification; a successful non-HTML response ends  *)
(* the call with null at once and the URL is not requested again.          *)
C12_PolicySkipsLeaveNoTrace ==
  /\ \A s \in skipped :
       /\ s.kind \in {"robots", "nonhtml"} =>
            /\ ResultsFor(s.url) = {}
            /\ s.url \notin failedUrls
            /\ ErrorEventsFor(s.url) = {}
            /\ requests[s.url] = s.requests
       /\ s.kind = "robots" => s.requests = 0
       /\ s.kind = "nonhtml" => s.requests \in 1..(options.maxRetries + 1)
       /\ s.kind = "visited" =>
            /\ Cardinality(ResultsFor(s.url)) + Cardinality(ErrorEventsFor(s.url)) <= 1
            /\ s.url \in failedUrls <=> ErrorEventsFor(s.url) # {}
  /\ \A i \in 1..Len(tasks) :
       (tasks[i].pc = "fulfilled" /\ tasks[i].value = <<>>)
         => \E s \in skipped : s.url = batch[i].url

(* C12 witness: a run returned after one URL was blocked by robots.txt,    *)
(* one answered with another content type after a failed first attempt,    *)
(* and one was dispatched a second time.                                   *)
C12_Witness ==
  /\ pc = "returned"
  /\ \E s \in skipped : s.kind = "robots"
  /\ \E s \in skipped : s.kind = "nonhtml" /\ s.requests = 2
  /\ \E s \in skipped : s.kind = "visited"

(* C13: a failed robots.txt request never fails the page: the URL is       *)
(* recorded as failed only after maxRetries + 1 page requests; and once    *)
(* the 'allow all' sentinel is cached for a host it stays, every later     *)
(* lookup for the host answers true and robots.txt is not requested again. *)
C13_RobotsFailureAllowsAll ==
  /\ [](\A u \in failedUrls : requests[u] = options.maxRetries + 1)
  /\ [][ \A k \in RobotsKeys :
           robotsCache[k].allowAll =>
             /\ robotsCache'[k].allowAll
             /\ robotsRequests'[k] = robotsRequests[k]
             /\ \A s \in skipped' \ skipped :
                  s.kind = "robots" => RobotsKey(s.url) # k ]_vars

(* Every pending response, timer and continuation eventually runs: the     *)
(* event loop leaves no enabled step of the crawl undone for ever.         *)
FairSpec == Spec /\ WF_vars(Next)

(* C14: crawl() eventually returns its summary, and when it returns the    *)
(* frontier is empty or results.length >= maxPages.                        *)
C14_EventuallyReturns ==
  /\ <>(pc = "returned")
  /\ [](pc = "returned" =>
          /\ Len(returned) = 1
          /\ (Len(queue) = 0 \/ Len(results) >= options.maxPages))

(* C15: the summary crawl() returns has totalPages = results.length,       *)
(* failedPages = the size of FailedSet, and averageTime = totalTime /      *)
(* totalPages, or 0 when there are no pages (2000 ms over 4 pages: 500).   *)
C15_SummaryArithmetic ==
  pc = "returned" =>
    LET summary == returned[1].summary
        num == summary.averageTime[1]
        den == summary.averageTime[2]
    IN  /\ summary.totalPages = Len(results)
        /\ summary.failedPages = Cardinality(failedUrls)
        /\ summary.totalTime \in ElapsedChoices
        /\ den > 0
        /\ IF Len(results) > 0
           THEN num * Len(results) = summary.totalTime * den
           ELSE num = 0
        /\ (Len(results) = 4 /\ summary.totalTime = 2000) => num = 500 * den

(* C15 witness: a run returned 4 results after 2000 ms with a failed page. *)
C15_Witness ==
  /\ pc = "returned"
  /\ Len(results) = 4
  /\ failedUrls # {}
  /\ returned[1].summary.totalTime = 2000
  /\ returned[1].summary.averageTime[1] = 500 * returned[1].summary.averageTime[2]

(* The items a step appends to the back of the queue.                      *)
Appended ==
  IF Len(queue') > Len(queue) /\ SubSeq(queue', 1, Len(queue)) = queue
  THEN { queue'[n] : n \in (Len(queue) + 1)..Len(queue') }
  ELSE {}

(* C16: a URL is appended to the frontier only if at that moment it is in  *)
(* neither VisitedSet nor FailedSet; a URL recorded as failed is never     *)
(* appended again, whichever page links to it later.                       *)
C16_OnlyUnseenEnqueued ==
  [][ \A item \in Appended :
        item.url \notin visitedUrls /\ item.url \notin failedUrls ]_vars

(* C16 witness: a page that links to a URL recorded as failed, and that    *)
(* is allowed to enqueue its links, was processed after the failure.       *)
C16_Witness ==
  /\ BatchProcessed
  /\ \E n \in 1..Len(results) :
       /\ WithinDepthLimit(results[n])
       /\ \E u \in failedUrls :
            /\ u \in SeqToSet(extractAndFilterUrls(results[n].links, results[n].url))
            /\ \E m \in 1..Len(dispatched) :
                 /\ dispatched[m].url = u
                 /\ \E k \in 1..Len(dispatched) :
                      /\ k > m
                      /\ dispatched[k].url = results[n].originalUrl

(* C17: the seed's PageResult (if any) has depth 0 and no parent, and      *)
(* every PageResult of depth d > 0 has as parent the url of a PageResult   *)
(* of depth d - 1 appended to results before it; with maxDepth = 1 every   *)
(* child result has depth 1 and the seed page's url as parent.             *)
C17_ParentChain ==
  \A n \in 1..Len(results) :
    /\ results[n].originalUrl = SeedUrl =>
         results[n].depth = 0 /\ results[n].parent = Null
    /\ results[n].depth = 0 => results[n].originalUrl = SeedUrl
    /\ results[n].depth > 0 =>
         \E m \in 1..(n - 1) :
           /\ results[m].url = results[n].parent
           /\ results[m].depth = results[n].depth - 1
    /\ (options.maxDepth = 1 /\ results[n].depth > 0) =>
         /\ results[n].depth = 1
         /\ results[n].parent = results[1].url
         /\ results[1].originalUrl = SeedUrl

(* C17 witness: a grandchild of the seed is in results, reached through a  *)
(* page that was answered from another URL than the one requested.         *)
C17_Witness ==
  \E n \in 1..Len(results) :
    /\ results[n].depth = 2
    /\ \E m \in 1..(n - 1) :
         /\ results[m].url = results[n].parent
         /\ results[m].url # results[m].originalUrl

(* ------------------- extractAndFilterUrls on its own ------------------- *)
(* The link URLs of the lists handed to a direct call.                     *)
LinkChoices == {A1, A2, B0, B1, M0}

LinkLists == UNION { [1..n -> LinkChoices] : n \in 0..MaxLinks }

(* The filter options of the crawler the call is made on.                  *)
FilterOptionChoices ==
  [ maxDepth            : {MaxDepthBound},
    maxPages            : {MaxPagesBound},
    maxConcurrency      : {MaxConcurrencyBound},
    delay               : DelayChoices,
    followExternalLinks : BOOLEAN,
    respectRobotsTxt    : {TRUE},
    allowedDomains      : {<<>>, <<"b.com">>, <<"a.com", "b.com">>},
    excludePatterns     : {<<>>, << <<"p">> >>},
    includePatterns     : {<<>>, << <<"a.com">> >>, << <<"p">> >>},
    maxRetries          : {MaxRetriesBound} ]

(* A constructed crawler on which crawl() is not running, and the          *)
(* arguments of the call about to be made.                                 *)
FilterInit ==
  /\ given \in FilterOptionChoices
  /\ listeners = {}
  /\ visitedUrls = {}
  /\ failedUrls = {}
  /\ results = <<>>
  /\ robotsCache = [ k \in RobotsKeys |-> NotCached ]
  /\ queue = <<>>
  /\ batch = <<>>
  /\ tasks = <<>>
  /\ idx = 1
  /\ pc = "idle"
  /\ returned = <<>>
  /\ emitted = <<>>
  /\ requests = [ u \in URLS |-> 0 ]
  /\ robotsRequests = [ k \in RobotsKeys |-> 0 ]
  /\ entered = [ u \in URLS |-> 0 ]
  /\ dispatched = <<>>
  /\ skipped = {}
  /\ \E links \in LinkLists, baseUrl \in {A0, B0} :
       filterRun = [links |-> links, baseUrl |-> baseUrl,
                    called |-> FALSE, value |-> <<>>]

(* await crawler.extractAndFilterUrls(links, baseUrl, depth)               *)
FilterCall ==
  /\ pc = "idle"
  /\ ~ filterRun.called
  /\ filterRun' = [filterRun EXCEPT
                     !.called = TRUE,
                     !.value = extractAndFilterUrls(filterRun.links,
                                                    filterRun.baseUrl)]
  /\ UNCHANGED <<given, listeners, visitedUrls, failedUrls, results,
                 robotsCache, queue, batch, tasks, idx, pc, returned,
                 emitted, requests, robotsRequests, entered, dispatched,
                 skipped>>

FilterNext == FilterCall

FilterSpec == FilterInit /\ [][FilterNext]_vars

MatchesSome(patterns, url) ==
  \E i \in 1..Len(patterns) : PatternTest(patterns[i], url)

(* C18: extractAndFilterUrls returns exactly the set (no duplicates) of    *)
(* link URLs with scheme http or https, the base's host unless             *)
(* followExternalLinks, a host in allowedDomains when that list is not     *)
(* empty, no excludePatterns match and, when includePatterns is not empty, *)
(* an includePatterns match.  A URL matching both an exclude and an        *)
(* include pattern is dropped, and allowedDomains never re-admits a host   *)
(* the followExternalLinks rule rejected.                                  *)
C18_FilterExact ==
  filterRun.called =>
    LET links == SeqToSet(filterRun.links)
        base == filterRun.baseUrl
        value == filterRun.value
        o == options
    IN  /\ SeqToSet(value) =
             { u \in links :
                 /\ u.protocol = "http:" \/ u.protocol = "https:"
                 /\ ~ o.followExternalLinks => u.hostname = base.hostname
                 /\ o.allowedDomains # <<>> =>
                      \E d \in 1..Len(o.allowedDomains) :
                         o.allowedDomains[d] = u.hostname
                 /\ ~ MatchesSome(o.excludePatterns, u)
                 /\ o.includePatterns # <<>> =>
                      MatchesSome(o.includePatterns, u) }
        /\ \A i, j \in 1..Len(value) : value[i] = value[j] => i = j
        /\ \A u \in links :
             /\ (MatchesSome(o.excludePatterns, u)
                   /\ MatchesSome(o.includePatterns, u))
                  => u \notin SeqToSet(value)
             /\ (~ o.followExternalLinks /\ u.hostname # base.hostname)
                  => u \notin SeqToSet(value)

(* C18 witness: one call whose list holds a kept URL twice, a URL matching *)
(* both an exclude and an include pattern, and a URL of another host than  *)
(* the base that allowedDomains lists while followExternalLinks is false.  *)
C18_Witness ==
  /\ filterRun.called
  /\ ~ options.followExternalLinks
  /\ \E i, j \in 1..Len(filterRun.links) :
       /\ i < j
       /\ filterRun.links[i] = filterRun.links[j]
       /\ filterRun.links[i] \in SeqToSet(filterRun.value)
  /\ \E u \in SeqToSet(filterRun.links) :
       /\ MatchesSome(options.excludePatterns, u)
       /\ MatchesSome(options.includePatterns, u)
  /\ \E u \in SeqToSet(filterRun.links) :
       /\ u.hostname # filterRun.baseUrl.hostname
       /\ u.hostname \in SeqToSet(options.allowedDomains)

(* C19: FailedSet is a subset of VisitedSet; the originalUrl of every      *)
(* PageResult is in VisitedSet; no two PageResults have the same           *)
(* originalUrl; and no originalUrl of a PageResult is in FailedSet.        *)
C19_SetsConsistent ==
  /\ failedUrls \subseteq visitedUrls
  /\ \A n \in 1..Len(results) : results[n].originalUrl \in visitedUrls
  /\ \A n, m \in 1..Len(results) :
       results[n].originalUrl = results[m].originalUrl => n = m
  /\ \A n \in 1..Len(results) : results[n].originalUrl \notin failedUrls

(* C19 witness: a finished run with a failed URL and several results, in   *)
(* which a URL was handed to crawlPage more than once.                     *)
C19_Witness ==
  /\ pc = "returned"
  /\ failedUrls # {}
  /\ Len(results) >= 2
  /\ \E m, k \in 1..Len(dispatched) :
       /\ m < k
       /\ dispatched[m].url = dispatched[k].url
       /\ \E n \in 1..Len(results) :
            results[n].originalUrl = dispatched[m].url

(* C20: with followExternalLinks false and allowedDomains empty, every URL *)
(* dispatched during a run has the seed URL's hostname, also when a page   *)
(* is answered through a redirect to another host.                         *)
C20_StaysOnSeedHost ==
  (~ options.followExternalLinks /\ options.allowedDomains = <<>>) =>
     \A n \in 1..Len(dispatched) :
        dispatched[n].url.hostname = SeedUrl.hostname
====
